---- MODULE Spec2Model ----
(***************************************************************************)
(* A model of ising_manual.py: the Metropolis simulation of the 2D Ising   *)
(* model (process_args, main, simulate, get_dH, to_two_color).             *)
(*                                                                         *)
(* Numbers.  Temperatures are held in thousandths (1350 is T = 1.35) and   *)
(* probabilities and uniform draws in millionths (Unit is 1.0).            *)
(* Arrays.  A numpy array is a record [shape, a]: a 2D lattice has         *)
(* shape = <<rows, cols>> and a[r][c] with 0-based r, c; a frame has       *)
(* shape = <<3, rows, cols>> and a = <<red, green, blue>>.                 *)
(* Two specifications: Spec is one run of the program (process_args, main, *)
(* simulate, the two trailing frames of main); SpecDH applies get_dH, as   *)
(* a pure function, to every lattice of a bounded family of shapes.        *)
(* Left out: the --help branch of process_args, the print of line 72 and   *)
(* write_gif, none of which touches the state modelled here.               *)
(***************************************************************************)
EXTENDS Integers, Sequences, FiniteSets

VARIABLES
    argv,       \* sys.argv after pop(0): a sequence of tokens <<kind, val>>
    N,          \* the argument of simulate
    T,          \* module global T (thousandths)
    width,      \* module global width
    height,     \* module global height
    lattice,    \* local of simulate: the spin array
    snapshots,  \* local of simulate: the list of frames
    dataset,    \* local of main: the list simulate returned
    snapshot,   \* loop variable of line 70
    step,       \* loop variable of line 74
    i,          \* loop variable of line 76
    j,          \* loop variable of line 77
    dE,         \* local of simulate, line 80
    u,          \* the uniform draws of the last decision: <<>> or <<value>>
    pc,         \* position in the program
    err,        \* the exception that ended the run, "" if none
    captured,   \* history: the lattice as it was at each capture
    capturedAt, \* history: the number of complete sweeps at each capture
    sweeps,     \* history: the number of complete sweeps
    visited,    \* history: the sites decided in the latest sweep, in order
    dPrev       \* SpecDH only: get_dH at the site before the flip

vars == <<argv, N, T, width, height, lattice, snapshots, dataset, snapshot,
          step, i, j, dE, u, pc, err, captured, capturedAt, sweeps, visited,
          dPrev>>

-----------------------------------------------------------------------------
(* Bounds of the model *)

MaxN == 1          \* simulate is called with N in 0..MaxN
MaxDim == 3        \* width and height arguments range over -1..MaxDim
SimMaxCells == 6   \* Spec builds lattices of at most this many cells
DHMaxSide == 3     \* SpecDH: sides of the lattices get_dH is applied to
DHMaxCells == 9    \* SpecDH: cells of the lattices get_dH is applied to

-----------------------------------------------------------------------------
(* Program constants and scales *)

SWEEPS == 5            \* range(5), line 74
DefaultT == 1350       \* T = 1.35, line 108
DefaultWidth == 42     \* line 109
DefaultHeight == 42    \* line 110
Milli == 1000          \* one unit of temperature, in thousandths
Unit == 1000000        \* probability 1.0, in millionths
NaN == -1              \* the float nan (no probability is negative)

Spins == {-1, 1}

\* The values np.random.rand() is drawn from, in millionths: all in [0, 1).
Uniform == {0, 10000, Unit - 1}

-----------------------------------------------------------------------------
(* numpy arrays *)

Rows(arr) == arr.shape[1]
Cols(arr) == arr.shape[2]

Sites(arr) == (0 .. Rows(arr) - 1) \X (0 .. Cols(arr) - 1)

\* every array np.random.randint can return at line 68, spins applied
RandomLattices(h, w) ==
    { [shape |-> <<h, w>>, a |-> g] :
        g \in [0 .. h - 1 -> [0 .. w - 1 -> {2 * b - 1 : b \in {0, 1}}]] }

\* the mapping with a negated cell that models binary spins 0/1
FlipBinary(lat, r, c) == [lat EXCEPT !.a[r][c] = 1 - @]

\* lattice[i, j] = -lattice[i, j]
Flip(lat, r, c) == [lat EXCEPT !.a[r][c] = -@]

\* the colour mapping with the test inverted
to_two_color_inverted(lat) ==
    LET red == [r \in 0 .. Rows(lat) - 1 |-> [c \in 0 .. Cols(lat) - 1 |->
                   IF lat.a[r][c] > 0 THEN 255 ELSE 0]]
        blue == [r \in 0 .. Rows(lat) - 1 |-> [c \in 0 .. Cols(lat) - 1 |-> 1 * 255]]
    IN [shape |-> <<3, Rows(lat), Cols(lat)>>, a |-> <<red, red, blue>>]

to_two_color(lat) ==
    LET blue == [r \in 0 .. Rows(lat) - 1 |-> [c \in 0 .. Cols(lat) - 1 |-> 1 * 255]]
        red == [r \in 0 .. Rows(lat) - 1 |-> [c \in 0 .. Cols(lat) - 1 |->
                   IF lat.a[r][c] < 0 THEN 255 ELSE 0]]
        green == red
    IN [shape |-> <<3, Rows(lat), Cols(lat)>>, a |-> <<red, green, blue>>]

\* frame * 0: a new array, every element multiplied by 0
TimesZero(frame) ==
    [shape |-> frame.shape,
     a |-> [ch \in DOMAIN frame.a |->
              [r \in DOMAIN frame.a[ch] |->
                 [c \in DOMAIN frame.a[ch][r] |-> frame.a[ch][r][c] * 0]]]]

-----------------------------------------------------------------------------
(* get_dH *)

Offsets == << <<-1, 0>>, <<1, 0>>, <<0, -1>>, <<0, 1>> >>

\* The index pair <<ii, jj>> the k-th iteration of the loop of get_dH reads.
\* Line 55 unpacks lattice.shape = (rows, cols) as "width, height".
NeighbourIndex(lat, loc, k) ==
    LET widthL == lat.shape[1]
        heightL == lat.shape[2]
    IN << (loc[1] + Offsets[k][1]) % heightL, (loc[2] + Offsets[k][2]) % widthL >>

\* lattice[ii, jj] raises IndexError when an index is not below its axis length
\* (the indices are never negative: % of a positive modulus)
get_dH_raises(lat, loc) ==
    \E k \in 1 .. 4 :
        \/ NeighbourIndex(lat, loc, k)[1] >= Rows(lat)
        \/ NeighbourIndex(lat, loc, k)[2] >= Cols(lat)

RECURSIVE SumTo(_, _)
SumTo(f, k) == IF k = 0 THEN 0 ELSE SumTo(f, k - 1) + f[k]

\* get_dH with the difference taken the other way round
get_dH_swapped(lat, loc) ==
    LET s == lat.a[loc[1]][loc[2]]
        nb(k) == lat.a[NeighbourIndex(lat, loc, k)[1]][NeighbourIndex(lat, loc, k)[2]]
        H == 0 - SumTo([k \in 1 .. 4 |-> nb(k) * s], 4)
        Hflip == 0 - SumTo([k \in 1 .. 4 |-> nb(k) * (-s)], 4)
    IN H - Hflip

\* the value get_dH returns when it raises nothing
get_dH(lat, loc) ==
    LET s == lat.a[loc[1]][loc[2]]
        nb(k) == lat.a[NeighbourIndex(lat, loc, k)[1]][NeighbourIndex(lat, loc, k)[2]]
        H == 0 - SumTo([k \in 1 .. 4 |-> nb(k) * s], 4)
        Hflip == 0 - SumTo([k \in 1 .. 4 |-> nb(k) * (-s)], 4)
    IN Hflip - H

-----------------------------------------------------------------------------
(* process_args *)

\* A command-line token is <<kind, val>>: an integer literal ("int", n), a
\* decimal literal ("real", thousandths) or any other word ("word", 0).
TTokens == { <<"int", 0>>, <<"int", -2>>, <<"real", DefaultT>>, <<"word", 0>> }
DimTokens == { <<"int", n>> : n \in -1 .. MaxDim } \cup { <<"real", 1500>> }

Argvs ==
    {<<>>} \cup { <<t>> : t \in TTokens }
           \cup { <<t, w>> : t \in TTokens, w \in DimTokens }
           \cup { <<t, w, h>> : t \in TTokens, w \in DimTokens, h \in DimTokens }

\* float(s) raises ValueError on a word; int(s) on anything but an integer literal
float_raises(tok) == tok[1] = "word"
float(tok) == IF tok[1] = "int" THEN tok[2] * Milli ELSE tok[2]
int_raises(tok) == tok[1] # "int"
int(tok) == tok[2]

process_args_raises(args) ==
    \/ Len(args) > 0 /\ float_raises(args[1])
    \/ Len(args) > 1 /\ int_raises(args[2])
    \/ Len(args) > 2 /\ int_raises(args[3])

\* <<T, width, height>> as returned at line 119
process_args(args) ==
    LET T1 == IF Len(args) > 0 THEN float(args[1]) ELSE DefaultT
        width1 == IF Len(args) > 1 THEN int(args[2]) ELSE DefaultWidth
        height1 == IF Len(args) > 1 THEN width1 ELSE DefaultHeight
        height2 == IF Len(args) > 2 THEN int(args[3]) ELSE height1
    IN <<T1, width1, height2>>

-----------------------------------------------------------------------------
(* The acceptance rule, lines 86-87 *)

\* np.exp(-dE / T) in millionths, rounded down, for dE >= 0.  Dividing the
\* numpy integer by 0.0 gives -inf (exp: 0.0) or, for 0/0, nan; it raises
\* nothing.  The values for T = 1.35 and T = -2 are those of exp at
\* -dE/T for the energies 0, 4 and 8 that four neighbours can give.
probability(d, t) ==
    CASE t = 0 /\ d = 0 -> NaN
      [] t = 0 /\ d > 0 -> 0
      [] t # 0 /\ d = 0 -> Unit
      [] t = 1350 /\ d = 4 -> 51665
      [] t = 1350 /\ d = 8 -> 2669
      [] t = -2000 /\ d = 4 -> 7389056
      [] t = -2000 /\ d = 8 -> 54598150

\* the comparison the other way round
switch_reversed(x, p) == p # NaN /\ x > p

\* np.random.rand() < probability: every comparison with nan is False
switch(x, p) == p # NaN /\ x < p

\* the outcome of the branch at lines 81-89: the cell is negated or not
Accepts(d, t, draws) == d < 0 \/ (Len(draws) = 1 /\ switch(draws[1], probability(d, t)))

\* the draws the branch can make: none if dE < 0, one otherwise
Draws(d) == IF d < 0 THEN {<<>>} ELSE { <<x>> : x \in Uniform }

-----------------------------------------------------------------------------
(* One run of the program *)

NoArray == [shape |-> <<0, 0>>, a |-> <<>>]

Init ==
    /\ argv \in Argvs
    /\ N \in 0 .. MaxN
    /\ T = 1350 /\ width = 42 /\ height = 42        \* lines 31-32
    /\ lattice = NoArray
    /\ snapshots = <<>> /\ dataset = <<>>
    /\ snapshot = 0 /\ step = 0 /\ i = 0 /\ j = 0
    /\ dE = 0 /\ u = <<>>
    /\ pc = "process_args" /\ err = ""
    /\ captured = <<>> /\ capturedAt = <<>> /\ sweeps = 0 /\ visited = <<>>
    /\ dPrev = 0

\* lines 124-125 and 93-95: parse the arguments, then main sets the globals
ProcessArgs ==
    /\ pc = "process_args"
    /\ IF process_args_raises(argv)
         THEN /\ pc' = "raised_in_process_args" /\ err' = "ValueError"
              /\ UNCHANGED <<T, width, height>>
         ELSE /\ T' = process_args(argv)[1]
              /\ width' = process_args(argv)[2]
              /\ height' = process_args(argv)[3]
              /\ pc' = "simulate" /\ UNCHANGED err
    /\ UNCHANGED <<argv, N, lattice, snapshots, dataset, snapshot, step, i, j,
                   dE, u, captured, capturedAt, sweeps, visited, dPrev>>

\* lines 68-69: randint raises ValueError on a negative dimension
Initialise ==
    /\ pc = "simulate"
    /\ width * height <= SimMaxCells
    /\ IF width < 0 \/ height < 0
         THEN /\ pc' = "raised_in_simulate" /\ err' = "ValueError"
              /\ UNCHANGED <<lattice, snapshots, snapshot>>
         ELSE /\ lattice' \in RandomLattices(height, width)
              /\ snapshots' = <<>>
              /\ snapshot' = 0
              /\ pc' = "for_snapshot" /\ UNCHANGED err
    /\ UNCHANGED <<argv, N, T, width, height, dataset, step, i, j, dE, u,
                   captured, capturedAt, sweeps, visited, dPrev>>

\* lines 70-74: the next snapshot is appended and its sweeps begin; on a
\* lattice without sites the five sweeps visit nothing
Capture ==
    /\ pc = "for_snapshot"
    /\ snapshot < N
    /\ snapshots' = Append(snapshots, to_two_color(lattice))
    /\ captured' = Append(captured, lattice)
    /\ capturedAt' = Append(capturedAt, sweeps)
    /\ step' = 0 /\ i' = 0 /\ j' = 0
    /\ IF width = 0 \/ height = 0
         THEN /\ sweeps' = sweeps + SWEEPS
              /\ snapshot' = snapshot + 1
              /\ pc' = "for_snapshot"
         ELSE /\ pc' = "get_dH"
              /\ UNCHANGED <<sweeps, snapshot>>
    /\ UNCHANGED <<argv, N, T, width, height, lattice, dataset, dE, u, err,
                   visited, dPrev>>

\* line 80
GetDH ==
    /\ pc = "get_dH"
    /\ IF get_dH_raises(lattice, <<i, j>>)
         THEN /\ pc' = "raised_in_simulate" /\ err' = "IndexError" /\ UNCHANGED dE
         ELSE /\ dE' = get_dH(lattice, <<i, j>>)
              /\ pc' = "decide" /\ UNCHANGED err
    /\ u' = <<>>
    /\ UNCHANGED <<argv, N, T, width, height, lattice, snapshots, dataset,
                   snapshot, step, i, j, captured, capturedAt, sweeps, visited,
                   dPrev>>

\* lines 81-89, then the loop headers of lines 77, 76, 74 and 70
Decide ==
    /\ pc = "decide"
    /\ \E draws \in Draws(dE) :
         /\ u' = draws
         /\ lattice' = IF Accepts(dE, T, draws) THEN Flip(lattice, i, j) ELSE lattice
    /\ visited' = Append(IF i = 0 /\ j = 0 THEN <<>> ELSE visited, <<i, j>>)
    /\ IF j + 1 < width
         THEN /\ j' = j + 1 /\ pc' = "get_dH"
              /\ UNCHANGED <<i, step, snapshot, sweeps>>
         ELSE IF i + 1 < height
         THEN /\ i' = i + 1 /\ j' = 0 /\ pc' = "get_dH"
              /\ UNCHANGED <<step, snapshot, sweeps>>
         ELSE /\ sweeps' = sweeps + 1
              /\ i' = 0 /\ j' = 0
              /\ IF step + 1 < SWEEPS
                   THEN /\ step' = step + 1 /\ pc' = "get_dH"
                        /\ UNCHANGED snapshot
                   ELSE /\ step' = 0 /\ snapshot' = snapshot + 1
                        /\ pc' = "for_snapshot"
    /\ UNCHANGED <<argv, N, T, width, height, snapshots, dataset, dE, err,
                   captured, capturedAt, dPrev>>

\* line 90 and the assignment of line 96
Return ==
    /\ pc = "for_snapshot"
    /\ snapshot >= N
    /\ dataset' = snapshots
    /\ pc' = "append_1"
    /\ UNCHANGED <<argv, N, T, width, height, lattice, snapshots, snapshot,
                   step, i, j, dE, u, err, captured, capturedAt, sweeps,
                   visited, dPrev>>

\* the statement with the last frame zeroed in place before it is appended
append_zero_in_place(ds) ==
    Append([ds EXCEPT ![Len(ds)] = TimesZero(@)], TimesZero(ds[Len(ds)]))

\* dataset.append(dataset[-1] * 0)
append_zero(ds) == Append(ds, TimesZero(ds[Len(ds)]))

\* lines 97 and 98: dataset[-1] raises IndexError on an empty list
MainAppend ==
    /\ pc \in {"append_1", "append_2"}
    /\ IF Len(dataset) = 0
         THEN /\ pc' = "raised_in_main" /\ err' = "IndexError" /\ UNCHANGED dataset
         ELSE /\ dataset' = append_zero(dataset)
              /\ pc' = IF pc = "append_1" THEN "append_2" ELSE "write_gif"
              /\ UNCHANGED err
    /\ UNCHANGED <<argv, N, T, width, height, lattice, snapshots, snapshot,
                   step, i, j, dE, u, captured, capturedAt, sweeps, visited,
                   dPrev>>

Next ==
    \/ ProcessArgs
    \/ Initialise
    \/ Capture
    \/ GetDH
    \/ Decide
    \/ Return
    \/ MainAppend

Spec == Init /\ [][Next]_vars

-----------------------------------------------------------------------------
(* get_dH as a pure function: every lattice of the bounded shapes, every   *)
(* site, then the same site again after the cell is negated                *)

DHShapes ==
    { sh \in (1 .. DHMaxSide) \X (1 .. DHMaxSide) : sh[1] * sh[2] <= DHMaxCells }

InitDH ==
    /\ argv = <<>> /\ N = 0 /\ T = DefaultT
    /\ \E sh \in DHShapes :
         /\ height = sh[1] /\ width = sh[2]
         /\ lattice \in RandomLattices(sh[1], sh[2])
    /\ snapshots = <<>> /\ dataset = <<>>
    /\ snapshot = 0 /\ step = 0 /\ i = 0 /\ j = 0
    /\ dE = 0 /\ u = <<>>
    /\ pc = "dh_start" /\ err = ""
    /\ captured = <<>> /\ capturedAt = <<>> /\ sweeps = 0 /\ visited = <<>>
    /\ dPrev = 0

\* dE = get_dH(lattice, (i, j)) at any site
DHProbe ==
    /\ pc = "dh_start"
    /\ \E loc \in Sites(lattice) :
         /\ i' = loc[1] /\ j' = loc[2]
         /\ IF get_dH_raises(lattice, loc)
              THEN /\ pc' = "dh_raised" /\ err' = "IndexError" /\ UNCHANGED dE
              ELSE /\ dE' = get_dH(lattice, loc)
                   /\ pc' = "dh_probed" /\ UNCHANGED err
    /\ UNCHANGED <<argv, N, T, width, height, lattice, snapshots, dataset,
                   snapshot, step, u, captured, capturedAt, sweeps, visited,
                   dPrev>>

\* lattice[i, j] = -lattice[i, j], then get_dH at the same site
DHFlipProbe ==
    /\ pc = "dh_probed"
    /\ lattice' = Flip(lattice, i, j)
    /\ dPrev' = dE
    /\ dE' = get_dH(Flip(lattice, i, j), <<i, j>>)
    /\ pc' = "dh_flipped"
    /\ UNCHANGED <<argv, N, T, width, height, snapshots, dataset, snapshot,
                   step, i, j, u, err, captured, capturedAt, sweeps, visited>>

NextDH ==
    \/ DHProbe
    \/ DHFlipProbe

SpecDH == InitDH /\ [][NextDH]_vars

-----------------------------------------------------------------------------
(* Vocabulary of the properties *)

\* simulate has built its lattice (line 68 has run without raising)
LatticeExists ==
    pc \in {"for_snapshot", "get_dH", "decide", "append_1", "append_2",
            "write_gif", "raised_in_main"}
      \/ (pc = "raised_in_simulate" /\ err = "IndexError")

\* simulate has returned its list to main
Returned == pc \in {"append_1", "append_2", "write_gif", "raised_in_main"}

\* the four periodic neighbours of site (r, c) on an h x w lattice, in the
\* order up, down, left, right
PeriodicNeighbours(h, w, r, c) ==
    << <<(r - 1) % h, c>>, <<(r + 1) % h, c>>, <<r, (c - 1) % w>>, <<r, (c + 1) % w>> >>

\* 2 * s(r,c) * (sum of the spins at the four periodic neighbours)
PeriodicDelta(lat, r, c) ==
    LET nbs == PeriodicNeighbours(Rows(lat), Cols(lat), r, c)
    IN 2 * lat.a[r][c] * SumTo([k \in 1 .. 4 |-> lat.a[nbs[k][1]][nbs[k][2]]], 4)

\* the sites of an h x w lattice in row-major order
Raster(h, w) == [k \in 1 .. h * w |-> <<(k - 1) \div w, (k - 1) % w>>]

IsPrefix(p, q) == Len(p) <= Len(q) /\ \A k \in 1 .. Len(p) : p[k] = q[k]

\* the sum of the cells of a 2D array
RECURSIVE SumCells(_, _)
SumCells(lat, k) ==
    IF k = 0 THEN 0
    ELSE SumCells(lat, k - 1) + lat.a[(k - 1) \div Cols(lat)][(k - 1) % Cols(lat)]
Magnetization(lat) == SumCells(lat, Rows(lat) * Cols(lat))

\* the spins a frame stands for: +1 where red is 0, -1 where red is 255
Decode(frame) ==
    [shape |-> <<frame.shape[2], frame.shape[3]>>,
     a |-> [r \in DOMAIN frame.a[1] |-> [c \in DOMAIN frame.a[1][r] |->
              IF frame.a[1][r][c] = 0 THEN 1 ELSE -1]]]

-----------------------------------------------------------------------------
(* C1 *)

\* C1: once simulate has built its lattice, in every state of the run (after
\* any number of site decisions and sweeps) the lattice has height rows of
\* width cells and every cell is +1 or -1.
C1_SpinsAndShape ==
    LatticeExists =>
        /\ lattice.shape = <<height, width>>
        /\ DOMAIN lattice.a = 0 .. height - 1
        /\ \A r \in 0 .. height - 1 :
             /\ DOMAIN lattice.a[r] = 0 .. width - 1
             /\ \A c \in 0 .. width - 1 : lattice.a[r][c] \in {-1, 1}

\* a 2x2 lattice in its second sweep or later that a flip has changed
C1_Witness ==
    /\ pc = "get_dH" /\ sweeps >= 1
    /\ height = 2 /\ width = 2
    /\ Len(captured) = 1 /\ lattice # captured[1]

-----------------------------------------------------------------------------
(* C2 *)

\* C2: at every site of every lattice, square or not, the four cells get_dH
\* reads are the periodic neighbours (row offsets modulo the number of rows,
\* column offsets modulo the number of columns), each inside the lattice.
C2_PeriodicNeighbours ==
    pc \in {"dh_probed", "dh_raised"} =>
        /\ \A k \in 1 .. 4 :
             NeighbourIndex(lattice, <<i, j>>, k)
               = PeriodicNeighbours(height, width, i, j)[k]
        /\ ~get_dH_raises(lattice, <<i, j>>)
        /\ pc # "dh_raised"

-----------------------------------------------------------------------------
(* C3 *)

\* C3: when the temperature is <= 0 or a dimension is not positive, the run
\* ends with an error before any work: no lattice is built, no snapshot is
\* taken, no site is decided.  (Whatever simulate raises before line 68
\* completes is taken for the InvalidParameter of the claim.)
C3_InvalidParameterRejected ==
    (pc # "process_args" /\ pc # "raised_in_process_args"
       /\ (T <= 0 \/ width <= 0 \/ height <= 0)) =>
        /\ ~LatticeExists
        /\ snapshots = <<>> /\ visited = <<>>
        /\ pc \in {"simulate", "raised_in_simulate"}

-----------------------------------------------------------------------------
(* C4 *)

\* C4: on every lattice with width >= 1 and height >= 1, at every site,
\* get_dH has a value d, and after the cell is negated get_dH at the same
\* site is -d.
C4_Reversible ==
    /\ pc # "dh_raised"
    /\ pc = "dh_flipped" => dE = -dPrev

-----------------------------------------------------------------------------
(* C5 *)

\* C5: on a square lattice of side >= 2, at every site, get_dH raises
\* nothing and returns 2 * s * (sum of the four periodic neighbours); it is
\* +8 at every site of the 2x2 lattice of +1; and the probe changes no cell.
C5_State ==
    (width = height /\ width >= 2) =>
        /\ pc # "dh_raised"
        /\ pc = "dh_probed" =>
             /\ dE = PeriodicDelta(lattice, i, j)
             /\ (width = 2 /\ \A loc \in Sites(lattice) : lattice.a[loc[1]][loc[2]] = 1)
                  => dE = 8

C5_Delta == [](C5_State) /\ [][pc = "dh_start" => lattice' = lattice]_vars

\* a probe of a 3x3 lattice with mixed spins at a corner, where the
\* neighbours wrap around both edges
C5_Witness ==
    /\ pc = "dh_probed" /\ width = 3 /\ height = 3 /\ i = 0 /\ j = 0
    /\ lattice.a[2][0] = -1 /\ lattice.a[0][2] = -1
    /\ lattice.a[1][0] = 1 /\ lattice.a[0][1] = -1 /\ lattice.a[0][0] = 1
    /\ dE = -4

-----------------------------------------------------------------------------
(* C6 *)

\* C6: with positive dimensions and temperature, simulate(N) raises nothing
\* and returns exactly N snapshots, snapshot k (0-based) captured after
\* exactly 5 * k complete sweeps.
C6_SnapshotsEveryFiveSweeps ==
    (pc \notin {"process_args", "raised_in_process_args"}
       /\ T > 0 /\ width > 0 /\ height > 0) =>
        /\ pc # "raised_in_simulate"
        /\ \A k \in 1 .. Len(capturedAt) : capturedAt[k] = SWEEPS * (k - 1)
        /\ Len(snapshots) = Len(capturedAt)
        /\ Returned => (Len(snapshots) = N /\ sweeps = SWEEPS * N)

-----------------------------------------------------------------------------
(* C7 *)

\* C7: a snapshot, once appended, is never changed: not by a later flip of
\* the lattice, not by a later append, not by main and its two trailing
\* frames.  Every entry stays the frame of the lattice as it was at capture.
C7_State ==
    /\ Len(snapshots) = Len(captured)
    /\ \A k \in 1 .. Len(snapshots) : snapshots[k] = to_two_color(captured[k])
    /\ Returned =>
         /\ Len(dataset) >= N
         /\ \A k \in 1 .. N : dataset[k] = to_two_color(captured[k])

C7_Step ==
    /\ Len(snapshots') >= Len(snapshots)
    /\ \A k \in 1 .. Len(snapshots) : snapshots'[k] = snapshots[k]
    /\ Len(dataset') >= Len(dataset)
    /\ \A k \in 1 .. Len(dataset) : dataset'[k] = dataset[k]

C7_SnapshotsFrozen == [](C7_State) /\ [][C7_Step]_vars

\* main has appended both trailing frames after a run whose lattice was
\* flipped after the capture
C7_Witness ==
    /\ pc = "write_gif" /\ N = 1 /\ Len(dataset) = 3
    /\ lattice # captured[1]
    /\ dataset[1] = to_two_color(captured[1])
    /\ dataset[1] # dataset[3]

-----------------------------------------------------------------------------
(* C8 *)

-----------------------------------------------------------------------------
(* C9 *)

\* C9: a site decision at (i, j) with T > 0 uses dE = get_dH(lattice, (i, j)).
\* If dE < 0 the cell is negated and nothing is drawn; otherwise one u in
\* [0, 1) is drawn and the cell is negated iff u < exp(-dE/T), so always when
\* dE = 0.  No other cell changes.
C9_Step ==
    (pc = "decide" /\ T > 0) =>
        /\ dE = get_dH(lattice, <<i, j>>)
        /\ dE < 0 => (u' = <<>> /\ lattice'.a[i][j] = -lattice.a[i][j])
        /\ dE >= 0 =>
             /\ Len(u') = 1 /\ u'[1] >= 0 /\ u'[1] < Unit
             /\ (lattice'.a[i][j] = -lattice.a[i][j]) <=> (u'[1] < probability(dE, T))
             /\ (lattice'.a[i][j] = lattice.a[i][j]) <=> ~(u'[1] < probability(dE, T))
             /\ dE = 0 => lattice'.a[i][j] = -lattice.a[i][j]
        /\ lattice'.shape = lattice.shape
        /\ \A loc \in Sites(lattice) :
             loc # <<i, j>> => lattice'.a[loc[1]][loc[2]] = lattice.a[loc[1]][loc[2]]

C9_Metropolis == [][C9_Step]_vars

\* the decision just made drew a u that rejected an energy-raising flip
C9_Witness ==
    /\ pc = "get_dH" /\ T > 0 /\ visited # <<>>
    /\ dE > 0 /\ Len(u) = 1 /\ u[1] >= probability(dE, T)
    /\ Len(captured) = 1 /\ lattice = captured[1]

-----------------------------------------------------------------------------
(* C10 *)

\* C10: each sweep visits every site of the height x width lattice exactly
\* once in row-major order, and each decision reads the neighbours as they
\* are now, flips of the same sweep included.
C10_RasterSweep ==
    (LatticeExists /\ T > 0 /\ width > 0 /\ height > 0) =>
        /\ IsPrefix(visited, Raster(height, width))
        /\ pc = "decide" => dE = PeriodicDelta(lattice, i, j)
        /\ (pc \notin {"get_dH", "decide"} /\ Len(snapshots) > 0)
              => visited = Raster(height, width)

====
